---- MODULE Spec2Model ----
(***************************************************************************)
(* The finite state machine of src/server/geom/Rectangle.ts (classes       *)
(* State, Transition and FiniteStateMachine, lines 987-1120).              *)
(*                                                                         *)
(* A State object is identified by its name and by the number of the       *)
(* addState call for that name that constructed it (gen), so that the      *)
(* State an addState call overwrites in the registry stays distinguishable *)
(* from the State that replaces it.  A Transition object is identified by  *)
(* its position in the order of construction.                              *)
(*                                                                         *)
(*   states        FiniteStateMachine._states: what this._states[name]     *)
(*                 reads, for every name the model uses                    *)
(*   transitions   State._transitions of every State object: the positions *)
(*                 in trans of its Transition objects, in push order       *)
(*   trans         the Transition objects: validation, fromState, toState  *)
(*   values        FiniteStateMachine.values, the property bag             *)
(*   currentState  FiniteStateMachine.currentState                         *)
(*   last          the call that ended last, with its arguments, its       *)
(*                 outcome and the current state when it was made          *)
(*   builderLog    the to and when calls that succeeded, each transition's *)
(*                 latest call of either kind, in the order they were made *)
(*   player        Player: the configuration it was given and the place    *)
(*                 its constructor has reached in initStatemachine         *)
(*   rect          a Rectangle: x, y, width, height                        *)
(*   rlast         the Rectangle call that ended last, with its arguments  *)
(*                 and the value it returned                               *)
(*   body          Player: arcadeBody.height, as the number of times the   *)
(*                 height it had after construction was halved, and        *)
(*                 isHalfWidth                                             *)
(*   plast         the setCrouching or update call of the Player that      *)
(*                 ended last, its argument and isHalfWidth before it      *)
(*   inventory     Player.item, and for every powerup the number of        *)
(*                 setItem calls that stored it and of its activations     *)
(*   title         the Title screen: the one-shot listeners of             *)
(*                 camera.onFadeComplete, the fade, the scenes started     *)
(*                                                                         *)
(* A validator is one of these functions of the bag: "true" is             *)
(* (_) => true, "a1" is v => v.a === 1, "a1b2" is                          *)
(* v => v.a === 1 && v.b === 2, "throws" is a function that throws,        *)
(* "moving" is v => v.velocityX !== 0, "still" is                          *)
(* v => v.velocityX === 0, "crouchPressed" is v => v.isCrouchPressed,      *)
(* "crouchReleased" is v => !v.isCrouchPressed and "offFloor" is           *)
(* v => !v.isOnFloor.                                                      *)
(***************************************************************************)
EXTENDS Integers, Sequences, FiniteSets, TLC

\* ---------------------------------------------------------------- bounds
\* The State objects constructed, the Transition objects constructed, and the
\* arguments of one isOneOf call.
MaxStates == 2
MaxTrans == 2
MaxArgs == 2
\* The largest coordinate or size of a Rectangle that a call is made on.
MaxCoord == 1
\* The largest speed given as velocityX.
MaxSpeed == 2
\* The setItem calls that store one powerup.
MaxItems == 3
\* The clicks made on the buttons of the Title screen, and the frames that
\* the fade of the camera lasts.
MaxClicks == 4
MaxFrames == 3

\* ---------------------------------------------------------------- inputs
Names == {"A", "B"}
Keys == {"a", "b"}
Vals == {1, 2}
Guards == {"true", "a1", "a1b2", "throws"}

\* A name that the registry, the plain object {}, inherits from
\* Object.prototype without any addState call: _states["constructor"] reads the
\* function Object, whose name property is "Object".
InheritedNames == {"constructor"}
ObjectFunction == [name |-> "Object", gen |-> 0]

\* The value read for a key the bag does not hold: a value that no call
\* writes, the number 0 included.
Undefined == 1000
\* The null reference.
Null == [name |-> "", gen |-> 0]

VARIABLES states, transitions, trans, values, currentState, last,
          builderLog, player, rect, rlast, body, plast, inventory, title

vars == <<states, transitions, trans, values, currentState, last,
          builderLog, player, rect, rlast, body, plast, inventory, title>>
machine == <<states, transitions, trans, values, currentState>>
\* The fields of a Player beside its machine, and the Title screen.
sprite == <<body, plast, inventory>>
\* What lies outside the machine: the order of the builder calls, the Player
\* that owns a machine, a Rectangle, and the Title screen.
outside == <<builderLog, player, rect, rlast, sprite, title>>

\* ------------------------------------------------------ outside the machine
\* new Rectangle(): x, y, width and height default to 0.
EmptyRectangle == [x |-> 0, y |-> 0, width |-> 0, height |-> 0]

\* The record of the Rectangle call that ended last: the operation, the
\* arguments it was given (b and output, value, dx and dy, flag) and what it
\* returned (ret a Rectangle, bool a boolean).
RCall(op, b, output, value, dx, dy, flag, ret, bool) ==
    [op |-> op, b |-> b, output |-> output, value |-> value, dx |-> dx,
     dy |-> dy, flag |-> flag, ret |-> ret, bool |-> bool]
NoRCall ==
    RCall("new", EmptyRectangle, EmptyRectangle, 0, 0, 0, FALSE,
          EmptyRectangle, FALSE)

\* true and false as values of a property.
JsTrue == 1
JsFalse == 0

\* The collision body of a Player after construction: its height is the
\* height H the engine gave it, halved halvings times; isHalfWidth = false.
FullBody == [halvings |-> 0, isHalfWidth |-> FALSE]
\* The record of the Player call that ended last.
PCall(op, crouching, wasHalf) ==
    [op |-> op, crouching |-> crouching, wasHalf |-> wasHalf]
NoPCall == PCall("new", JsFalse, FALSE)

\* The powerups given to a Player, and the item it holds after
\* construction: new EmptyPowerup(...), given to it by no setItem call.
Powerups == {"P1", "P2"}
EmptyPowerup == "EmptyPowerup"
NoUses == [p \in Powerups |-> 0]
NewInventory ==
    [item |-> EmptyPowerup, stored |-> NoUses, activated |-> NoUses,
     op |-> "new"]

InitSprite ==
    /\ body = FullBody
    /\ plast = NoPCall
    /\ inventory = NewInventory

\* The Title screen after create(): no listener, no fade, no scene started.
\* listeners are the scenes that the one-shot listeners of
\* camera.onFadeComplete start, in the order they were added; elapsed is the
\* number of frames the fade has run, 0 when there is none; started are the
\* scenes given to game.state.start so far.
NoTitle ==
    [listeners |-> <<>>, elapsed |-> 0, started |-> <<>>, op |-> "create",
     clicks |-> 0]

\* No Player constructed.
NoPlayer ==
    [pc |-> "none", config |-> [states |-> <<>>, transitions |-> <<>>],
     origin |-> 0, destination |-> 0, builder |-> 0]

\* The machine on its own: no builder call logged, no Player, and the
\* Rectangle that new Rectangle() makes.
InitOutside ==
    /\ builderLog = <<>>
    /\ player = NoPlayer
    /\ rect = EmptyRectangle
    /\ rlast = NoRCall
    /\ InitSprite
    /\ title = NoTitle

\* ------------------------------------------------------------- helpers
\* The State objects constructed so far: the values that have the methods
\* and fields of State.
Allocated == DOMAIN transitions

\* An object literal {k1: v1, ...} over the keys K: a function from some of K.
ObjectsOver(K) == UNION {[D -> Vals] : D \in SUBSET K}
NoObjects == [k \in {} |-> Undefined]

\* The argument lists of isOneOf(...stateNames).
ArgLists == UNION {[1..n -> Names] : n \in 0..MaxArgs}

\* The record of the call that ended last: the operation, its arguments, how
\* it ended (res) and the current state when it was called (prev).
Call(op, name, objects, stateNames, res) ==
    [op |-> op, name |-> name, objects |-> objects, stateNames |-> stateNames,
     res |-> res, prev |-> currentState]

ToStr(b) == IF b THEN "true" ELSE "false"

\* A guard function applied to the bag: does the call throw, and if not,
\* what does it return.
GuardThrows(g, v) == g = "throws"
validationAskew(g, v) ==
    CASE g = "true" -> v["a"] # Undefined
      [] g = "a1" -> v["a"] = 1
      [] g = "a1b2" -> v["a"] = 1 /\ v["b"] = 2
      [] g = "moving" -> v["velocityX"] # 0
      [] g = "still" -> v["velocityX"] = 0
      [] g = "crouchPressed" -> v["isCrouchPressed"] = JsTrue
      [] g = "crouchReleased" -> v["isCrouchPressed"] # JsTrue
      [] g = "offFloor" -> v["isOnFloor"] # JsTrue
      [] OTHER -> FALSE
\* "moving" taken as moving to the right.
validationPositive(g, v) ==
    CASE g = "true" -> TRUE
      [] g = "a1" -> v["a"] = 1
      [] g = "a1b2" -> v["a"] = 1 /\ v["b"] = 2
      [] g = "moving" -> v["velocityX"] # Undefined /\ v["velocityX"] > 0
      [] g = "still" -> v["velocityX"] = 0
      [] g = "crouchPressed" -> v["isCrouchPressed"] = JsTrue
      [] g = "crouchReleased" -> v["isCrouchPressed"] # JsTrue
      [] g = "offFloor" -> v["isOnFloor"] # JsTrue
      [] OTHER -> FALSE
validation(g, v) ==
    CASE g = "true" -> TRUE
      [] g = "a1" -> v["a"] = 1
      [] g = "a1b2" -> v["a"] = 1 /\ v["b"] = 2
      [] g = "moving" -> v["velocityX"] # 0
      [] g = "still" -> v["velocityX"] = 0
      [] g = "crouchPressed" -> v["isCrouchPressed"] = JsTrue
      [] g = "crouchReleased" -> v["isCrouchPressed"] # JsTrue
      [] g = "offFloor" -> v["isOnFloor"] # JsTrue
      [] OTHER -> FALSE

\* ---------------------------------------------------------- class State
\* State.checkForTransitions: the loop over ts from position i on.  kind
\* "return": the loop returned t.toState of the transition at position at
\* (Null when that transition has no destination), or null after the last
\* transition (at = 0); kind "throw": the guard at position at threw.
RECURSIVE scanTransitions(_, _, _)
scanTransitions(ts, i, v) ==
    IF i > Len(ts)
    THEN [kind |-> "return", state |-> Null, at |-> 0]
    ELSE LET t == trans[ts[i]] IN
         IF GuardThrows(t.validation, v)
         THEN [kind |-> "throw", state |-> Null, at |-> i]
         ELSE IF validation(t.validation, v)
              THEN [kind |-> "return", state |-> t.toState, at |-> i]
              ELSE scanTransitions(ts, i + 1, v)

\* The loop run from the last transition to the first.
RECURSIVE scanBackwards(_, _, _)
scanBackwards(ts, i, v) ==
    IF i < 1
    THEN [kind |-> "return", state |-> Null, at |-> 0]
    ELSE LET t == trans[ts[i]] IN
         IF GuardThrows(t.validation, v)
         THEN [kind |-> "throw", state |-> Null, at |-> i]
         ELSE IF validation(t.validation, v)
              THEN [kind |-> "return", state |-> t.toState, at |-> i]
              ELSE scanBackwards(ts, i - 1, v)

\* The loop with a guard that throws taken as a guard that returns false.
RECURSIVE scanCatching(_, _, _)
scanCatching(ts, i, v) ==
    IF i > Len(ts)
    THEN [kind |-> "return", state |-> Null, at |-> 0]
    ELSE LET t == trans[ts[i]] IN
         IF ~GuardThrows(t.validation, v) /\ validation(t.validation, v)
         THEN [kind |-> "return", state |-> t.toState, at |-> i]
         ELSE scanCatching(ts, i + 1, v)

checkForTransitionsCatching(s, v) == scanCatching(transitions[s], 1, v)

\* The loop returning the first destination without asking the guard.
checkForTransitionsUnguarded(s, v) ==
    IF transitions[s] = <<>>
    THEN [kind |-> "return", state |-> Null, at |-> 0]
    ELSE [kind |-> "return", state |-> trans[transitions[s][1]].toState, at |-> 1]

checkForTransitionsLastWins(s, v) ==
    scanBackwards(transitions[s], Len(transitions[s]), v)

checkForTransitions(s, v) == scanTransitions(transitions[s], 1, v)

\* State.addTransition
addTransitionReplace(list, t) == <<t>>
addTransition(list, t) == Append(list, t)

\* ------------------------------------------------------ class Transition
\* The fields the constructor sets.
Transition == [validation |-> "true", fromState |-> Null, toState |-> Null]

\* ------------------------------------------------ class FiniteStateMachine
\* getState: throws `State ${statename} not found` or returns the State.
\* this._states[statename]: Null stands for undefined.
registryRead(statename) ==
    IF statename \in DOMAIN states THEN states[statename] ELSE Null

getStateInverted(statename) ==
    IF registryRead(statename) # Null
    THEN [throws |-> TRUE, state |-> Null]
    ELSE [throws |-> FALSE, state |-> registryRead(statename)]
getState(statename) ==
    IF registryRead(statename) = Null
    THEN [throws |-> TRUE, state |-> Null]
    ELSE [throws |-> FALSE, state |-> registryRead(statename)]

InitMachine ==
    /\ states = [n \in Names \cup InheritedNames |->
                    IF n \in InheritedNames THEN ObjectFunction ELSE Null]
    /\ transitions = [s \in {} |-> <<>>]
    /\ trans = <<>>
    /\ values = [k \in Keys |-> Undefined]
    /\ currentState = Null
    /\ last = [op |-> "new", name |-> "", objects |-> NoObjects,
               stateNames |-> <<>>, res |-> "ok", prev |-> Null]

Init == InitMachine /\ InitOutside

\* addState(stateName)
\* A registered name keeps the State it has.
AddStateKeep(stateName) ==
    /\ Cardinality(Allocated) < MaxStates
    /\ IF states[stateName] # Null
       THEN UNCHANGED <<states, transitions>>
       ELSE LET nw == [name |-> stateName, gen |-> 1] IN
            /\ states' = [states EXCEPT ![stateName] = nw]
            /\ transitions' = (nw :> <<>>) @@ transitions
    /\ last' = Call("addState", stateName, NoObjects, <<>>, "ok")
    /\ UNCHANGED <<trans, values, currentState>>

AddState(stateName) ==
    /\ Cardinality(Allocated) < MaxStates
    /\ LET nw == [name |-> stateName, gen |-> states[stateName].gen + 1] IN
       /\ states' = [states EXCEPT ![stateName] = nw]
       /\ transitions' = (nw :> <<>>) @@ transitions
    /\ last' = Call("addState", stateName, NoObjects, <<>>, "ok")
    /\ UNCHANGED <<trans, values, currentState>>

\* updateInternalState with s the current state and v the bag: how the call
\* ends and the current state it leaves.
updateInternalStateKeep(s, v) ==
    IF s \notin Allocated
    THEN [res |-> "TypeError", state |-> s]
    ELSE LET nwState == checkForTransitions(s, v) IN
         IF nwState.kind = "throw"
         THEN [res |-> "guard threw", state |-> s]
         ELSE [res |-> "ok", state |-> s]

\* The result of the loop assigned as it is, null included.
updateInternalStateAssign(s, v) ==
    IF s \notin Allocated
    THEN [res |-> "TypeError", state |-> s]
    ELSE LET nwState == checkForTransitions(s, v) IN
         IF nwState.kind = "throw"
         THEN [res |-> "guard threw", state |-> s]
         ELSE [res |-> "ok", state |-> nwState.state]

\* The State the loop returned made current as it is, without the lookup of
\* its name.
updateInternalStateDirect(s, v) ==
    IF s \notin Allocated
    THEN [res |-> "TypeError", state |-> s]
    ELSE LET nwState == checkForTransitions(s, v) IN
         IF nwState.kind = "throw"
         THEN [res |-> "guard threw", state |-> s]
         ELSE IF nwState.state # Null
              THEN [res |-> "ok", state |-> nwState.state]
              ELSE [res |-> "ok", state |-> s]

updateInternalStateCascade(s, v) ==
    LET once(c) ==
            IF c \notin Allocated
            THEN [res |-> "TypeError", state |-> c]
            ELSE LET nwState == checkForTransitions(c, v) IN
                 IF nwState.kind = "throw"
                 THEN [res |-> "guard threw", state |-> c]
                 ELSE IF nwState.state # Null
                      THEN LET g == getState(nwState.state.name) IN
                           IF g.throws
                           THEN [res |-> "not found", state |-> c]
                           ELSE [res |-> "ok", state |-> g.state]
                      ELSE [res |-> "ok", state |-> c]
        u == once(s)
    IN  IF u.res = "ok" /\ u.state # s THEN once(u.state) ELSE u

updateInternalState(s, v) ==
    IF s \notin Allocated
    THEN [res |-> "TypeError", state |-> s]
    ELSE LET nwState == checkForTransitions(s, v) IN
         IF nwState.kind = "throw"
         THEN [res |-> "guard threw", state |-> s]
         ELSE IF nwState.state # Null
              THEN LET g == getState(nwState.state.name) IN
                   IF g.throws
                   THEN [res |-> "not found", state |-> s]
                   ELSE [res |-> "ok", state |-> g.state]
              ELSE [res |-> "ok", state |-> s]

\* setCurrentState(stateName)
SetCurrentStateThenUpdate(stateName) ==
    LET g == getState(stateName) IN
    IF g.throws
    THEN /\ last' = Call("setCurrentState", stateName, NoObjects, <<>>, "not found")
         /\ UNCHANGED machine
    ELSE /\ currentState' = updateInternalState(g.state, values).state
         /\ last' = Call("setCurrentState", stateName, NoObjects, <<>>, "ok")
         /\ UNCHANGED <<states, transitions, trans, values>>

SetCurrentState(stateName) ==
    LET g == getState(stateName) IN
    IF g.throws
    THEN /\ last' = Call("setCurrentState", stateName, NoObjects, <<>>, "not found")
         /\ UNCHANGED machine
    ELSE /\ currentState' = g.state
         /\ last' = Call("setCurrentState", stateName, NoObjects, <<>>, "ok")
         /\ UNCHANGED <<states, transitions, trans, values>>

\* from(stateName)
From(stateName) ==
    LET g == getState(stateName) IN
    IF g.throws
    THEN /\ last' = Call("from", stateName, NoObjects, <<>>, "not found")
         /\ UNCHANGED machine
    ELSE IF g.state \notin Allocated
         THEN /\ last' = Call("from", stateName, NoObjects, <<>>, "TypeError")
              /\ UNCHANGED machine
         ELSE LET t == Len(trans) + 1 IN
              /\ Len(trans) < MaxTrans
              /\ trans' = Append(trans, [Transition EXCEPT !.fromState = g.state])
              /\ transitions' = [transitions EXCEPT ![g.state] = addTransition(@, t)]
              /\ last' = Call("from", stateName, NoObjects, <<>>, "ok")
              /\ UNCHANGED <<states, values, currentState>>

\* Transition.to(state), called on the Transition object t
\* The transition put at the end of its origin's list when it is bound.
ToAttach(t, state) ==
    LET g == getState(state)
        o == trans[t].fromState
    IN
    IF g.throws
    THEN /\ last' = Call("to", state, NoObjects, <<>>, "not found")
         /\ UNCHANGED machine
    ELSE /\ trans' = [trans EXCEPT ![t].toState = g.state]
         /\ transitions' =
               [transitions EXCEPT
                   ![o] = Append(SelectSeq(@, LAMBDA u : u # t), t)]
         /\ last' = Call("to", state, NoObjects, <<>>, "ok")
         /\ UNCHANGED <<states, values, currentState>>

To(t, state) ==
    LET g == getState(state) IN
    IF g.throws
    THEN /\ last' = Call("to", state, NoObjects, <<>>, "not found")
         /\ UNCHANGED machine
    ELSE /\ trans' = [trans EXCEPT ![t].toState = g.state]
         /\ last' = Call("to", state, NoObjects, <<>>, "ok")
         /\ UNCHANGED <<states, transitions, values, currentState>>

\* Transition.when(validator), called on the Transition object t
\* The guard kept in one place for all the transitions.
WhenShared(t, validator) ==
    /\ trans' = [u \in DOMAIN trans |-> [trans[u] EXCEPT !.validation = validator]]
    /\ last' = Call("when", "", NoObjects, <<>>, "ok")
    /\ UNCHANGED <<states, transitions, values, currentState>>

When(t, validator) ==
    /\ trans' = [trans EXCEPT ![t].validation = validator]
    /\ last' = Call("when", "", NoObjects, <<>>, "ok")
    /\ UNCHANGED <<states, transitions, values, currentState>>

\* setProperty(key, value): the bag, the outcome and the current state after
\* the call.
\* No pass when the bag already holds the value.
setPropertyIfChanged(key, value) ==
    IF values[key] = value
    THEN [values |-> values, res |-> "ok", state |-> currentState]
    ELSE LET v == [values EXCEPT ![key] = value]
             u == updateInternalState(currentState, v)
         IN  [values |-> v, res |-> u.res, state |-> u.state]

\* A bag made anew of the one entry.
setPropertyFresh(key, value) ==
    LET v == [k \in Keys |-> IF k = key THEN value ELSE Undefined]
        u == updateInternalState(currentState, v)
    IN  [values |-> v, res |-> u.res, state |-> u.state]

setProperty(key, value) ==
    LET v == [values EXCEPT ![key] = value]
        u == updateInternalState(currentState, v)
    IN  [values |-> v, res |-> u.res, state |-> u.state]

SetProperty(key, value) ==
    LET r == setProperty(key, value) IN
    /\ values' = r.values
    /\ currentState' = r.state
    /\ last' = Call("setProperty", "", key :> value, <<>>, r.res)
    /\ UNCHANGED <<states, transitions, trans>>

\* setProperties(objects): the bag, the outcome and the current state after
\* the call.
\* One evaluation pass per entry, in the order b, a.
setPropertiesEach(objects) ==
    LET vb == IF "b" \in DOMAIN objects
              THEN [values EXCEPT !["b"] = objects["b"]] ELSE values
        ub == IF "b" \in DOMAIN objects
              THEN updateInternalState(currentState, vb)
              ELSE [res |-> "ok", state |-> currentState]
        va == IF "a" \in DOMAIN objects
              THEN [vb EXCEPT !["a"] = objects["a"]] ELSE vb
        ua == IF ub.res = "ok" /\ "a" \in DOMAIN objects
              THEN updateInternalState(ub.state, va) ELSE ub
    IN  [values |-> IF ub.res = "ok" THEN va ELSE vb,
         res |-> ua.res, state |-> ua.state]

setProperties(objects) ==
    LET v == [k \in DOMAIN values |->
                 IF k \in DOMAIN objects THEN objects[k] ELSE values[k]]
        u == updateInternalState(currentState, v)
    IN  [values |-> v, res |-> u.res, state |-> u.state]

SetProperties(objects) ==
    LET r == setProperties(objects) IN
    /\ values' = r.values
    /\ currentState' = r.state
    /\ last' = Call("setProperties", "", objects, <<>>, r.res)
    /\ UNCHANGED <<states, transitions, trans>>

\* is(stateName): "true", "false", or "TypeError" when currentState is null.
isByReference(stateName) ==
    IF currentState = Null THEN "TypeError"
    ELSE ToStr(currentState = states[stateName])
\* No current state read as a state of no name.
isNullSafe(stateName) ==
    IF currentState = Null THEN "false"
    ELSE ToStr(currentState.name = stateName)
is(stateName) ==
    IF currentState = Null THEN "TypeError"
    ELSE ToStr(currentState.name = stateName)

\* get currentStateName: the name, or "TypeError" when currentState is null.
currentStateName ==
    IF currentState = Null THEN "TypeError" ELSE currentState.name

\* isOneOf(...stateNames): Array.some over the arguments from position i on.
RECURSIVE some(_, _)
some(stateNames, i) ==
    IF i > Len(stateNames) THEN "false"
    ELSE IF is(stateNames[i]) = "false" THEN some(stateNames, i + 1)
         ELSE is(stateNames[i])

RECURSIVE every(_, _)
every(stateNames, i) ==
    IF i > Len(stateNames) THEN "true"
    ELSE IF is(stateNames[i]) = "true" THEN every(stateNames, i + 1)
         ELSE is(stateNames[i])

isOneOfEvery(stateNames) == every(stateNames, 1)
isOneOf(stateNames) == some(stateNames, 1)

Is(stateName) ==
    /\ last' = Call("is", stateName, NoObjects, <<>>, is(stateName))
    /\ UNCHANGED machine

IsOneOf(stateNames) ==
    /\ last' = Call("isOneOf", "", NoObjects, stateNames, isOneOf(stateNames))
    /\ UNCHANGED machine

\* A read of currentStateName; res is the name read, or "TypeError".
CurrentStateName ==
    /\ last' = Call("currentStateName", "", NoObjects, <<>>, currentStateName)
    /\ UNCHANGED machine

\* --------------------------------------------------------- class Rectangle
\* The numbers a Rectangle is made of, and the Rectangles the calls are
\* made on and given.
Coords == (0 - MaxCoord)..MaxCoord
Rects == [x : Coords, y : Coords, width : Coords, height : Coords]
\* The Rectangles given as output: new Rectangle() and others.
Outputs == {r \in Rects : r.x = r.y /\ r.y = r.width /\ r.width = r.height}

\* Math.round(n / 2) for an integer n: halves are rounded up.
MathRoundHalf(n) == (n + 1) \div 2

\* The getters.
halfWidth(r) == MathRoundHalf(r.width)
halfHeight(r) == MathRoundHalf(r.height)
bottom(r) == r.y + r.height
right(r) == r.x + r.width
centerX(r) == r.x + halfWidth(r)
centerY(r) == r.y + halfHeight(r)
\* !this.width || !this.height
empty(r) == r.width = 0 \/ r.height = 0

setTo(r, x, y, width, height) ==
    [r EXCEPT !.x = x, !.y = y, !.width = width, !.height = height]

\* The setters: the Rectangle r after the assignment of value.
setEmpty(r, value) == IF value = TRUE THEN setTo(r, 0, 0, 0, 0) ELSE r

setBottomMovesY(r, value) ==
    IF value <= r.y
    THEN [r EXCEPT !.height = 0, !.y = value]
    ELSE [r EXCEPT !.height = value - r.y]
setBottom(r, value) ==
    IF value <= r.y
    THEN [r EXCEPT !.height = 0]
    ELSE [r EXCEPT !.height = value - r.y]

setLeft(r, value) ==
    IF value >= right(r)
    THEN [r EXCEPT !.width = 0, !.x = value]
    ELSE [r EXCEPT !.width = right(r) - value, !.x = value]

setRight(r, value) ==
    IF value <= r.x
    THEN [r EXCEPT !.width = 0]
    ELSE [r EXCEPT !.width = value - r.x]

setTop(r, value) ==
    IF value >= bottom(r)
    THEN [r EXCEPT !.height = 0, !.y = value]
    ELSE [r EXCEPT !.height = bottom(r) - value]

\* static inflate(a, dx, dy)
inflateOneSide(a, dx, dy) ==
    [a EXCEPT !.width = a.width + 2 * dx, !.height = a.height + 2 * dy]
inflate(a, dx, dy) ==
    [a EXCEPT !.x = a.x - dx, !.width = a.width + 2 * dx,
              !.y = a.y - dy, !.height = a.height + 2 * dy]

\* static intersects(a, b)
intersects(a, b) ==
    IF a.width <= 0 \/ a.height <= 0 \/ b.width <= 0 \/ b.height <= 0
    THEN FALSE
    ELSE ~(right(a) < b.x \/ bottom(a) < b.y \/ a.x > right(b) \/ a.y > bottom(b))

Min(m, n) == IF m <= n THEN m ELSE n
Max(m, n) == IF m >= n THEN m ELSE n

\* static intersection(a, b, output), output another object than a and b.
intersection(a, b, output) ==
    IF intersects(a, b)
    THEN LET x == Max(a.x, b.x)
             y == Max(a.y, b.y)
         IN  [x |-> x, y |-> y,
              width |-> Min(right(a), right(b)) - x,
              height |-> Min(bottom(a), bottom(b)) - y]
    ELSE output

\* The calls, made on rect.
UnchangedByRect == <<machine, last, builderLog, player, sprite, title>>

SetBottom(value) ==
    /\ rect' = setBottom(rect, value)
    /\ rlast' = RCall("setBottom", EmptyRectangle, EmptyRectangle, value, 0, 0,
                      FALSE, EmptyRectangle, FALSE)
    /\ UNCHANGED UnchangedByRect

SetLeft(value) ==
    /\ rect' = setLeft(rect, value)
    /\ rlast' = RCall("setLeft", EmptyRectangle, EmptyRectangle, value, 0, 0,
                      FALSE, EmptyRectangle, FALSE)
    /\ UNCHANGED UnchangedByRect

SetRight(value) ==
    /\ rect' = setRight(rect, value)
    /\ rlast' = RCall("setRight", EmptyRectangle, EmptyRectangle, value, 0, 0,
                      FALSE, EmptyRectangle, FALSE)
    /\ UNCHANGED UnchangedByRect

SetTop(value) ==
    /\ rect' = setTop(rect, value)
    /\ rlast' = RCall("setTop", EmptyRectangle, EmptyRectangle, value, 0, 0,
                      FALSE, EmptyRectangle, FALSE)
    /\ UNCHANGED UnchangedByRect

\* rect.empty = flag
SetEmpty(flag) ==
    /\ rect' = setEmpty(rect, flag)
    /\ rlast' = RCall("setEmpty", EmptyRectangle, EmptyRectangle, 0, 0, 0,
                      flag, EmptyRectangle, FALSE)
    /\ UNCHANGED UnchangedByRect

\* A read of rect.empty.
GetEmpty ==
    /\ rlast' = RCall("empty", EmptyRectangle, EmptyRectangle, 0, 0, 0,
                      FALSE, EmptyRectangle, empty(rect))
    /\ UNCHANGED <<rect, UnchangedByRect>>

\* rect.inflate(dx, dy)
Inflate(dx, dy) ==
    /\ rect' = inflate(rect, dx, dy)
    /\ rlast' = RCall("inflate", EmptyRectangle, EmptyRectangle, 0, dx, dy,
                      FALSE, inflate(rect, dx, dy), FALSE)
    /\ UNCHANGED UnchangedByRect

\* rect.intersection(b, output), and Rectangle.intersection(rect, b) when
\* output is new Rectangle().
Intersection(b, output) ==
    /\ rlast' = RCall("intersection", b, output, 0, 0, 0,
                      FALSE, intersection(rect, b, output), FALSE)
    /\ UNCHANGED <<rect, UnchangedByRect>>

\* ----------------------------------------------------------- class Player
\* The names and guards of a configuration, the key whose value the guards
\* read, and the values given for it.
PlayerNames == {"Idle", "Running"}
PlayerGuards == {"moving", "still"}
PlayerKeys == {"velocityX"}
Velocities == (0 - MaxSpeed)..MaxSpeed
\* PlayerStates.Idle
Idle == "Idle"

\* Config.states: an object whose keys are state names, in the order in
\* which for..in gives them (states); each holds transitions, an object
\* whose keys are destination names, in for..in order, with their guards.
Range(f) == {f[i] : i \in DOMAIN f}
NoRepeat(f) == \A i \in DOMAIN f, j \in DOMAIN f : (i # j) => (f[i] # f[j])
KeyOrders == {o \in UNION {[1..n -> PlayerNames] : n \in 0..Cardinality(PlayerNames)} :
                 NoRepeat(o)}
Entries == [destination : PlayerNames, validation : PlayerGuards]
EntryLists ==
    {e \in UNION {[1..n -> Entries] : n \in 0..MaxTrans} :
        NoRepeat([i \in DOMAIN e |-> e[i].destination])}
RECURSIVE SumLen(_, _)
SumLen(f, D) ==
    IF D = {} THEN 0
    ELSE LET n == CHOOSE n \in D : TRUE IN Len(f[n]) + SumLen(f, D \ {n})
Configs ==
    UNION {{[states |-> o, transitions |-> f] :
               f \in {f \in [Range(o) -> EntryLists] :
                         SumLen(f, Range(o)) <= MaxTrans}} :
           o \in KeyOrders}

\* initStatemachine: the place of the two loops over the transitions from
\* the destination d of the origin o on, or the call after them.
RECURSIVE Place(_, _, _)
Place(config, o, d) ==
    IF o > Len(config.states)
    THEN [pc |-> "setCurrentState", origin |-> 0, destination |-> 0]
    ELSE IF d <= Len(config.transitions[config.states[o]])
         THEN [pc |-> "from", origin |-> o, destination |-> d]
         ELSE Place(config, o + 1, 1)

At(config, place, builder) ==
    [pc |-> place.pc, config |-> config, origin |-> place.origin,
     destination |-> place.destination, builder |-> builder]

\* Where initStatemachine begins.
Start(config) ==
    IF config.states = <<>>
    THEN At(config, Place(config, 1, 1), 0)
    ELSE At(config, [pc |-> "addState", origin |-> 1, destination |-> 0], 0)

Threw == [player EXCEPT !.pc = "threw"]

\* this.sm.addState(k, ...) for the next key k of Config.states
InitAddState ==
    /\ player.pc = "addState"
    /\ AddState(player.config.states[player.origin])
    /\ player' = IF player.origin < Len(player.config.states)
                 THEN [player EXCEPT !.origin = @ + 1]
                 ELSE At(player.config, Place(player.config, 1, 1), 0)
    /\ UNCHANGED <<builderLog, rect, rlast, sprite, title>>

\* this.sm.from(origin)
InitFrom ==
    /\ player.pc = "from"
    /\ From(player.config.states[player.origin])
    /\ player' = IF last'.res = "ok"
                 THEN [player EXCEPT !.pc = "to", !.builder = Len(trans')]
                 ELSE Threw
    /\ UNCHANGED <<builderLog, rect, rlast, sprite, title>>

\* .to(destination)
InitTo ==
    /\ player.pc = "to"
    /\ LET e == player.config.transitions[player.config.states[player.origin]]
                    [player.destination]
       IN  To(player.builder, e.destination)
    /\ player' = IF last'.res = "ok" THEN [player EXCEPT !.pc = "when"] ELSE Threw
    /\ UNCHANGED <<builderLog, rect, rlast, sprite, title>>

\* .when(transitions[destination])
InitWhen ==
    /\ player.pc = "when"
    /\ LET e == player.config.transitions[player.config.states[player.origin]]
                    [player.destination]
       IN  When(player.builder, e.validation)
    /\ player' = At(player.config,
                    Place(player.config, player.origin, player.destination + 1), 0)
    /\ UNCHANGED <<builderLog, rect, rlast, sprite, title>>

\* this.sm.setCurrentState(PlayerStates.Idle)
\* The first state of the configuration made current.
InitSetCurrentStateFirst ==
    /\ player.pc = "setCurrentState"
    /\ SetCurrentState(IF player.config.states = <<>> THEN Idle
                       ELSE player.config.states[1])
    /\ player' = IF last'.res = "ok" THEN [player EXCEPT !.pc = "done"] ELSE Threw
    /\ UNCHANGED <<builderLog, rect, rlast, sprite, title>>

InitSetCurrentState ==
    /\ player.pc = "setCurrentState"
    /\ SetCurrentState(Idle)
    /\ player' = IF last'.res = "ok" THEN [player EXCEPT !.pc = "done"] ELSE Threw
    /\ UNCHANGED <<builderLog, rect, rlast, sprite, title>>

\* player.sm.setProperty('velocityX', v), on a Player that was constructed
PlayerSetProperty(v) ==
    /\ player.pc = "done"
    /\ \E k \in PlayerKeys : SetProperty(k, v)
    /\ UNCHANGED outside

\* The Player that crouches: the names and guards of its configuration,
\* the names setCrouching asks isOneOf about, and the keys of the bag.
CrouchNames == {"Idle", "Crouched", "SlideCrouched"}
CrouchStates == <<"Crouched", "CrouchWalking", "SlideCrouched">>
CrouchGuards == {"crouchPressed", "crouchReleased", "offFloor"}
UpdateKeys == {"isOnFloor", "velocityX", "velocityY", "isStuck", "isOnWall"}
CrouchKeys == {"isCrouchPressed"} \cup UpdateKeys
Bools == {JsTrue, JsFalse}

\* Config.states over the names N and the guards G.
OrdersOver(N) ==
    {o \in UNION {[1..n -> N] : n \in 0..MaxStates} : NoRepeat(o)}
EntryListsOver(N, G) ==
    {e \in UNION {[1..n -> [destination : N, validation : G]] : n \in 0..MaxTrans} :
        NoRepeat([i \in DOMAIN e |-> e[i].destination])}
ConfigsOver(N, G) ==
    UNION {{[states |-> o, transitions |-> f] :
               f \in {f \in [Range(o) -> EntryListsOver(N, G)] :
                         SumLen(f, Range(o)) <= MaxTrans}} :
           o \in OrdersOver(N)}

\* goHalfWidth() and exitHalfWidth(): the body after the call.
\* The height halved whatever isHalfWidth says.
goHalfWidthAgain(b) ==
    [halvings |-> b.halvings + 1, isHalfWidth |-> TRUE]
goHalfWidth(b) ==
    IF b.isHalfWidth THEN b
    ELSE [halvings |-> b.halvings + 1, isHalfWidth |-> TRUE]

exitHalfWidth(b) ==
    IF ~b.isHalfWidth THEN b
    ELSE [halvings |-> b.halvings - 1, isHalfWidth |-> FALSE]

\* setCrouching(crouching), on a Player that was constructed
SetCrouching(crouching) ==
    /\ player.pc = "done"
    /\ SetProperty("isCrouchPressed", crouching)
    /\ body' = IF last'.res # "ok" THEN body
               ELSE IF crouching = JsTrue /\ isOneOf(CrouchStates)' = "true"
                    THEN goHalfWidth(body)
                    ELSE exitHalfWidth(body)
    /\ plast' = PCall("setCrouching", crouching, body.isHalfWidth)
    /\ UNCHANGED <<builderLog, player, rect, rlast, inventory, title>>

\* update(), on a Player that was constructed: what the engine reports is
\* pushed to the machine.
Update(objects) ==
    /\ player.pc = "done"
    /\ SetProperties(objects)
    /\ plast' = PCall("update", plast.crouching, body.isHalfWidth)
    /\ UNCHANGED <<builderLog, player, rect, rlast, body, inventory, title>>

\* What update() pushes: the floor contact is either, the rest is at rest.
UpdateObjects ==
    {[k \in UpdateKeys |-> IF k = "isOnFloor" THEN f ELSE 0] : f \in Bools}

\* setItem(powerup): the powerup is held; one more call has stored it.
SetItem(powerup) ==
    /\ inventory.stored[powerup] < MaxItems
    /\ inventory' = [inventory EXCEPT !.item = powerup,
                                      !.stored[powerup] = @ + 1,
                                      !.op = "setItem"]
    /\ UNCHANGED <<machine, last, builderLog, player, rect, rlast, body, plast, title>>

\* getItem()
GetItem ==
    /\ inventory' = [inventory EXCEPT !.op = "getItem"]
    /\ UNCHANGED <<machine, last, builderLog, player, rect, rlast, body, plast, title>>

\* useItem(): this.item.activate(), then this.item = new EmptyPowerup(...).
\* An EmptyPowerup is made by the Player itself and is no powerup given to it.
\* The item activated and kept.
UseItemKeep ==
    /\ inventory' = [inventory EXCEPT
                        !.activated = IF inventory.item \in Powerups
                                      THEN [@ EXCEPT ![inventory.item] = @ + 1]
                                      ELSE @,
                        !.op = "useItem"]
    /\ UNCHANGED <<machine, last, builderLog, player, rect, rlast, body, plast, title>>

UseItem ==
    /\ inventory' = [inventory EXCEPT
                        !.activated = IF inventory.item \in Powerups
                                      THEN [@ EXCEPT ![inventory.item] = @ + 1]
                                      ELSE @,
                        !.item = EmptyPowerup,
                        !.op = "useItem"]
    /\ UNCHANGED <<machine, last, builderLog, player, rect, rlast, body, plast, title>>

\* ------------------------------------------------------------ class Title
\* The buttons that have a callback, and the scene each one loads:
\* playClick adds loadGame, helpClick adds loadHelp, creditsClick adds
\* loadCredits.
Buttons == {"play", "help", "credits"}
SceneOf(button) ==
    CASE button = "play" -> "lobby"
      [] button = "help" -> "help"
      [] button = "credits" -> "credits"

\* onFadeComplete.addOnce(listener, this): a listener that is registered
\* with the same context is not registered again.
addOnce(listeners, scene) ==
    IF \E i \in DOMAIN listeners : listeners[i] = scene
    THEN listeners
    ELSE Append(listeners, scene)

\* playClick / helpClick / creditsClick: the listener is added and
\* camera.fade(0x000000, 1000) is called.  A fade asked for while one runs
\* is ignored or starts over, as the engine decides.
Click(button) ==
    /\ title.started = <<>>
    /\ title.clicks < MaxClicks
    /\ \E e \in (IF title.elapsed = 0 THEN {1} ELSE {1, title.elapsed}) :
          title' = [title EXCEPT !.listeners = addOnce(@, SceneOf(button)),
                                 !.elapsed = e,
                                 !.op = "click",
                                 !.clicks = @ + 1]
    /\ UNCHANGED <<machine, last, builderLog, player, rect, rlast, sprite>>

\* A frame passes while the camera fades.
Frame ==
    /\ title.elapsed \in 1..(MaxFrames - 1)
    /\ title' = [title EXCEPT !.elapsed = @ + 1, !.op = "frame"]
    /\ UNCHANGED <<machine, last, builderLog, player, rect, rlast, sprite>>

\* The fade ends: onFadeComplete is dispatched, every listener runs once,
\* in the order they were added, and is removed; loadGame, loadHelp and
\* loadCredits each call game.state.start with their scene.
FadeComplete ==
    /\ title.elapsed = MaxFrames
    /\ title' = [title EXCEPT !.started = @ \o title.listeners,
                              !.listeners = <<>>,
                              !.elapsed = 0,
                              !.op = "fadeComplete"]
    /\ UNCHANGED <<machine, last, builderLog, player, rect, rlast, sprite>>

\* ------------------------------------------------------- specifications
\* Any interleaving of the calls of the machine's owner.
Next ==
    \/ \E n \in Names : AddState(n) /\ UNCHANGED outside
    \/ \E n \in Names : SetCurrentState(n) /\ UNCHANGED outside
    \/ \E n \in Names : From(n) /\ UNCHANGED outside
    \/ \E t \in 1..Len(trans), n \in Names : To(t, n) /\ UNCHANGED outside
    \/ \E t \in 1..Len(trans), g \in Guards : When(t, g) /\ UNCHANGED outside
    \/ \E k \in Keys, x \in Vals : SetProperty(k, x) /\ UNCHANGED outside
    \/ \E o \in ObjectsOver(Keys) : SetProperties(o) /\ UNCHANGED outside

Spec == Init /\ [][Next]_vars

\* The same calls with the queries is, isOneOf and currentStateName among
\* them; guards and keys are drawn from smaller sets.
QueryGuards == {"true"}
QueryKeys == {"a"}

NextQuery ==
    \/ \E n \in Names : AddState(n) /\ UNCHANGED outside
    \/ \E n \in Names : SetCurrentState(n) /\ UNCHANGED outside
    \/ \E n \in Names : From(n) /\ UNCHANGED outside
    \/ \E t \in 1..Len(trans), n \in Names : To(t, n) /\ UNCHANGED outside
    \/ \E t \in 1..Len(trans), g \in QueryGuards : When(t, g) /\ UNCHANGED outside
    \/ \E k \in QueryKeys, x \in Vals : SetProperty(k, x) /\ UNCHANGED outside
    \/ \E o \in ObjectsOver(QueryKeys) : SetProperties(o) /\ UNCHANGED outside
    \/ \E n \in Names : Is(n) /\ UNCHANGED outside
    \/ \E a \in ArgLists : IsOneOf(a) /\ UNCHANGED outside
    \/ CurrentStateName /\ UNCHANGED outside

SpecQuery == Init /\ [][NextQuery]_vars

\* The same calls, with the names given to from, to and setCurrentState
\* drawn from the inherited names as well.
NextInherited ==
    \/ \E n \in Names : AddState(n) /\ UNCHANGED outside
    \/ \E n \in Names \cup InheritedNames : SetCurrentState(n) /\ UNCHANGED outside
    \/ \E n \in Names \cup InheritedNames : From(n) /\ UNCHANGED outside
    \/ \E t \in 1..Len(trans), n \in Names \cup InheritedNames : To(t, n) /\ UNCHANGED outside
    \/ \E t \in 1..Len(trans), g \in QueryGuards : When(t, g) /\ UNCHANGED outside
    \/ \E k \in QueryKeys, x \in Vals : SetProperty(k, x) /\ UNCHANGED outside
    \/ \E o \in ObjectsOver(QueryKeys) : SetProperties(o) /\ UNCHANGED outside

SpecInherited == Init /\ [][NextInherited]_vars

\* The same calls, with the order of the to and when calls that succeeded
\* kept in builderLog: each call is put at the end, in place of an earlier
\* call of the same method on the same transition.
BuilderGuards == {"a1"}

Logged(method, t) ==
    Append(SelectSeq(builderLog, LAMBDA e : e # <<method, t>>), <<method, t>>)

NextBuilder ==
    \/ \E n \in Names : AddState(n) /\ UNCHANGED outside
    \/ \E n \in Names : SetCurrentState(n) /\ UNCHANGED outside
    \/ \E n \in Names : From(n) /\ UNCHANGED outside
    \/ \E t \in 1..Len(trans), n \in Names :
          /\ To(t, n)
          /\ builderLog' = IF getState(n).throws THEN builderLog ELSE Logged("to", t)
          /\ UNCHANGED <<player, rect, rlast, sprite, title>>
    \/ \E t \in 1..Len(trans), g \in BuilderGuards :
          /\ When(t, g)
          /\ builderLog' = Logged("when", t)
          /\ UNCHANGED <<player, rect, rlast, sprite, title>>
    \/ \E k \in QueryKeys, x \in Vals : SetProperty(k, x) /\ UNCHANGED outside

SpecBuilder == Init /\ [][NextBuilder]_vars

\* The calls on a Rectangle whose fields are coordinates.
InitRect ==
    /\ InitMachine
    /\ builderLog = <<>>
    /\ player = NoPlayer
    /\ rect \in Rects
    /\ rlast = NoRCall
    /\ InitSprite
    /\ title = NoTitle

NextRect ==
    \/ \E value \in Coords : rect \in Rects /\ SetBottom(value)
    \/ \E value \in Coords : rect \in Rects /\ SetLeft(value)
    \/ \E value \in Coords : rect \in Rects /\ SetRight(value)
    \/ \E value \in Coords : rect \in Rects /\ SetTop(value)
    \/ \E flag \in BOOLEAN : rect \in Rects /\ SetEmpty(flag)
    \/ rect \in Rects /\ GetEmpty
    \/ \E dx \in Coords, dy \in Coords : rect \in Rects /\ Inflate(dx, dy)
    \/ \E b \in Rects, output \in Outputs : rect \in Rects /\ Intersection(b, output)

SpecRect == InitRect /\ [][NextRect]_vars

\* The constructor of Player on a configuration, then property updates.
InitPlayer ==
    /\ states = [n \in PlayerNames |-> Null]
    /\ transitions = [s \in {} |-> <<>>]
    /\ trans = <<>>
    /\ values = [k \in PlayerKeys |-> Undefined]
    /\ currentState = Null
    /\ last = [op |-> "new", name |-> "", objects |-> NoObjects,
               stateNames |-> <<>>, res |-> "ok", prev |-> Null]
    /\ builderLog = <<>>
    /\ player \in {Start(c) : c \in Configs}
    /\ rect = EmptyRectangle
    /\ rlast = NoRCall
    /\ InitSprite
    /\ title = NoTitle

NextPlayer ==
    \/ InitAddState
    \/ InitFrom
    \/ InitTo
    \/ InitWhen
    \/ InitSetCurrentState
    \/ \E v \in Velocities : PlayerSetProperty(v)

SpecPlayer == InitPlayer /\ [][NextPlayer]_vars

\* The constructor of Player on a configuration with crouch states, then
\* setCrouching and update calls.
InitCrouch ==
    /\ states = [n \in CrouchNames |-> Null]
    /\ transitions = [s \in {} |-> <<>>]
    /\ trans = <<>>
    /\ values = [k \in CrouchKeys |-> Undefined]
    /\ currentState = Null
    /\ last = [op |-> "new", name |-> "", objects |-> NoObjects,
               stateNames |-> <<>>, res |-> "ok", prev |-> Null]
    /\ builderLog = <<>>
    /\ player \in {Start(c) : c \in ConfigsOver(CrouchNames, CrouchGuards)}
    /\ rect = EmptyRectangle
    /\ rlast = NoRCall
    /\ InitSprite
    /\ title = NoTitle

NextCrouch ==
    \/ InitAddState
    \/ InitFrom
    \/ InitTo
    \/ InitWhen
    \/ InitSetCurrentState
    \/ \E crouching \in Bools : SetCrouching(crouching)
    \/ \E o \in UpdateObjects : Update(o)

SpecCrouch == InitCrouch /\ [][NextCrouch]_vars

\* The calls on the item of a Player.
NextItems ==
    \/ \E powerup \in Powerups : SetItem(powerup)
    \/ GetItem
    \/ UseItem

SpecItems == Init /\ [][NextItems]_vars

\* The Title screen: clicks on its buttons while the camera fades.
NextTitle ==
    \/ \E button \in Buttons : Click(button)
    \/ Frame
    \/ FadeComplete

SpecTitle == Init /\ [][NextTitle]_vars

\* ------------------------------------------------------- properties
\* The call that ended last was setProperty or setProperties, made with a
\* current state set: an evaluation pass ran on the transitions of last.prev
\* against the bag as it is now.  (An update call changes neither a
\* transition list nor a Transition, so both read as the pass read them.)
Updated == last.op \in {"setProperty", "setProperties"} /\ last.prev \in Allocated

\* The transition at position i of the State s, and what its guard does on
\* the bag.
TransitionAt(s, i) == trans[transitions[s][i]]
Positions(s) == 1..Len(transitions[s])
GuardHolds(s, i) ==
    /\ ~GuardThrows(TransitionAt(s, i).validation, values)
    /\ validation(TransitionAt(s, i).validation, values)
GuardFalse(s, i) ==
    /\ ~GuardThrows(TransitionAt(s, i).validation, values)
    /\ ~validation(TransitionAt(s, i).validation, values)
HasDestination(s, i) == TransitionAt(s, i).toState \in Allocated
\* Every transition declared before position i has a guard that returns false.
NoEarlierMatch(s, i) == \A k \in 1..(i - 1) : GuardFalse(s, k)
\* The transition at position i is the one the pass takes.
Fires(s, i) == GuardHolds(s, i) /\ HasDestination(s, i) /\ NoEarlierMatch(s, i)

\* C1: first-match-wins.  When a property update is made with the State A
\* current and the bag it leaves satisfies the guards of two transitions of
\* A, T1 declared before T2, both with a destination, and T1 is the first
\* transition of A whose guard does not return false, then the call ends
\* normally and the current state is named as T1's destination.
C1_FirstMatchWins ==
    Updated =>
        \A i \in Positions(last.prev), j \in Positions(last.prev) :
            (i < j /\ Fires(last.prev, i)
                   /\ GuardHolds(last.prev, j) /\ HasDestination(last.prev, j))
            => /\ last.res = "ok"
               /\ currentState.name = TransitionAt(last.prev, i).toState.name

\* A pass from A took T1: A -> B1 although the guard of T2: A -> B2, declared
\* after it and with another destination, holds too.
C1_Witness ==
    /\ Updated
    /\ last.res = "ok"
    /\ \E i \in Positions(last.prev), j \in Positions(last.prev) :
          /\ i < j
          /\ Fires(last.prev, i)
          /\ GuardHolds(last.prev, j) /\ HasDestination(last.prev, j)
          /\ TransitionAt(last.prev, i).toState.name
                # TransitionAt(last.prev, j).toState.name
          /\ currentState.name = TransitionAt(last.prev, i).toState.name

\* C2: when a property update is made with the State A current, and a
\* transition of A with destination B has a guard that holds on the bag
\* after the update while every transition of A declared before it has a
\* guard that returns false, the current state after the call is named B
\* and is the State the registry holds under that name.
C2_MatchingTransitionFires ==
    Updated =>
        \A i \in Positions(last.prev) :
            Fires(last.prev, i)
            => /\ last.res = "ok"
               /\ currentState.name = TransitionAt(last.prev, i).toState.name
               /\ currentState = states[currentState.name]

\* A pass moved the machine to another state through a transition guarded by
\* the bag, declared second.
C2_Witness ==
    /\ Updated
    /\ \E i \in Positions(last.prev) :
          /\ i = 2
          /\ Fires(last.prev, i)
          /\ TransitionAt(last.prev, i).validation = "a1"
          /\ currentState.name = TransitionAt(last.prev, i).toState.name
          /\ currentState.name # last.prev.name

\* C3: when no transition of the current state has a guard that holds on the
\* bag after a property update, the current state after the call is the
\* current state before it.
C3_NoMatchKeepsState ==
    (Updated /\ \A i \in Positions(last.prev) : ~GuardHolds(last.prev, i))
    => currentState = last.prev

\* A pass ran over a transition with a destination whose guard returned
\* false, and the state stayed.
C3_Witness ==
    /\ Updated
    /\ last.res = "ok"
    /\ Positions(last.prev) # {}
    /\ \A i \in Positions(last.prev) :
          GuardFalse(last.prev, i) /\ HasDestination(last.prev, i)
    /\ currentState = last.prev

\* C4: setProperties(objects) writes every entry of objects and then runs
\* one pass on the whole bag: after the call the bag holds every entry; the
\* current state is the destination of the transition the pass takes on the
\* whole bag, and the state before the call when no guard holds on the
\* whole bag (whatever held on a part of the batch).
C4_BatchThenOnePass ==
    last.op = "setProperties" =>
        /\ \A k \in DOMAIN last.objects : values[k] = last.objects[k]
        /\ last.prev \in Allocated =>
              /\ \A i \in Positions(last.prev) :
                    Fires(last.prev, i)
                    => currentState.name = TransitionAt(last.prev, i).toState.name
              /\ (\A i \in Positions(last.prev) : ~GuardHolds(last.prev, i))
                    => currentState = last.prev

\* setProperties({a: 1, b: 2}) moved the machine through a transition whose
\* guard asks for a = 1 and b = 2, to a state that itself has a transition
\* whose guard holds on that bag.
C4_Witness ==
    /\ last.op = "setProperties"
    /\ last.prev \in Allocated
    /\ last.res = "ok"
    /\ DOMAIN last.objects = {"a", "b"}
    /\ last.objects["a"] = 1 /\ last.objects["b"] = 2
    /\ \E i \in Positions(last.prev) :
          /\ Fires(last.prev, i)
          /\ TransitionAt(last.prev, i).validation = "a1b2"
          /\ currentState.name = TransitionAt(last.prev, i).toState.name
    /\ currentState # last.prev
    /\ \E j \in Positions(currentState) :
          Fires(currentState, j)
          /\ TransitionAt(currentState, j).toState.name # currentState.name

\* C5: a property update changes the current state at most once.  When the
\* pass takes a transition A -> B and B, as the registry holds it, has a
\* transition that the same bag would take, the current state after the call
\* is B: the transitions of B are not evaluated in that call.
C5_NoCascade ==
    Updated =>
        \A i \in Positions(last.prev) :
            LET b == states[TransitionAt(last.prev, i).toState.name] IN
            (Fires(last.prev, i) /\ \E j \in Positions(b) : Fires(b, j))
            => currentState = b

\* A pass moved the machine from A to B, and B has a transition to another
\* state that the bag would take.
C5_Witness ==
    /\ Updated
    /\ last.res = "ok"
    /\ currentState # last.prev
    /\ \E i \in Positions(last.prev) :
          /\ Fires(last.prev, i)
          /\ currentState.name = TransitionAt(last.prev, i).toState.name
    /\ \E j \in Positions(currentState) :
          /\ Fires(currentState, j)
          /\ TransitionAt(currentState, j).toState.name # currentState.name

\* The call that ended last was from, to or setCurrentState; last.name is the
\* state name it was given.  (None of the three changes the registry, so the
\* registry reads as the call read it.)
Lookup == last.op \in {"from", "to", "setCurrentState"}

\* An addState call registered the name n.
Registered(n) == \E s \in Allocated : s.name = n

\* C6: from(name), to(name) and setCurrentState(name) with a name that no
\* addState call registered each end with an error, and the current state
\* after the call is the current state before it.
C6_UnknownNameThrows ==
    (Lookup /\ ~Registered(last.name))
    => (last.res # "ok" /\ currentState = last.prev)

\* C7: from(name), to(name) and setCurrentState(name) with a name that an
\* addState call registered end without error, and setCurrentState(name)
\* leaves a current state named name.
C7_RegisteredNameResolves ==
    (Lookup /\ Registered(last.name))
    => /\ last.res = "ok"
       /\ last.op = "setCurrentState" => currentState.name = last.name

\* Every name was registered by exactly one addState call, and
\* setCurrentState then moved the machine from one of them to another.
C7_Witness ==
    /\ \A n \in Names : states[n] # Null /\ states[n].gen = 1
    /\ last.op = "setCurrentState"
    /\ last.res = "ok"
    /\ last.prev # Null
    /\ last.prev.name # last.name
    /\ currentState.name = last.name

\* C8: setCurrentState(name) runs no evaluation pass: when it ends without
\* error the current state is the State the registry holds under name,
\* whatever the guards of that State's transitions return on the bag; and
\* the current state changes only in a setCurrentState, setProperty or
\* setProperties call.
C8_SetCurrentStateNoPass ==
    /\ [](last.op = "setCurrentState" /\ Registered(last.name)
            => currentState = states[last.name] /\ currentState.name = last.name)
    /\ [][currentState' # currentState
            => last'.op \in {"setCurrentState", "setProperty", "setProperties"}]_vars

\* setCurrentState made current a State whose first transition has the
\* default guard and a destination of another name.
C8_Witness ==
    /\ last.op = "setCurrentState"
    /\ last.res = "ok"
    /\ currentState.name = last.name
    /\ Positions(currentState) # {}
    /\ TransitionAt(currentState, 1).validation = "true"
    /\ Fires(currentState, 1)
    /\ TransitionAt(currentState, 1).toState.name # currentState.name

\* C9: with a current state set, is(name) returns true iff the current
\* state's name is name, and isOneOf(n1, ..., nk) returns true iff the
\* current state's name is one of n1..nk (false for no arguments); neither
\* call changes the machine.
C9_Queries ==
    /\ [](last.op = "is" /\ currentState # Null
            => last.res = ToStr(currentState.name = last.name))
    /\ [](last.op = "isOneOf" /\ currentState # Null
            => last.res = ToStr(\E i \in DOMAIN last.stateNames :
                                    last.stateNames[i] = currentState.name))
    /\ [][last'.op \in {"is", "isOneOf"} => UNCHANGED machine]_vars

\* isOneOf returned true for two arguments of which only the second names
\* the current state.
C9_Witness ==
    /\ last.op = "isOneOf"
    /\ last.res = "true"
    /\ Len(last.stateNames) = 2
    /\ currentState # Null
    /\ last.stateNames[1] # currentState.name
    /\ last.stateNames[2] = currentState.name

\* How a pass that stops at position k of the State s ends.
StopsAt(s, k) ==
    IF GuardThrows(TransitionAt(s, k).validation, values)
    THEN last.res = "guard threw" /\ currentState = s
    ELSE /\ last.res = "ok"
         /\ IF HasDestination(s, k)
            THEN currentState.name = TransitionAt(s, k).toState.name
            ELSE currentState = s

\* C10, as stated: a transition from(A).to(B) with the default guard fires
\* on every evaluation pass that starts with A current.  (Stated for the
\* passes over transitions that all have a destination and a guard that
\* returns.)
C10_FiresOnEveryPass ==
    (Updated /\ \A k \in Positions(last.prev) :
                    /\ HasDestination(last.prev, k)
                    /\ ~GuardThrows(TransitionAt(last.prev, k).validation, values))
    => \A i \in Positions(last.prev) :
            TransitionAt(last.prev, i).validation = "true"
            => currentState.name = TransitionAt(last.prev, i).toState.name

\* C10, amended: a transition from(A).to(B) with the default guard fires,
\* whatever the bag holds, on every evaluation pass that starts with A
\* current and in which every transition of A declared before it has a guard
\* that returns false; and every pass that starts with A current stops at
\* that transition or at one declared before it, so that no transition of A
\* declared after it fires.
C10_DefaultGuardAlwaysTrue ==
    Updated =>
        \A i \in Positions(last.prev) :
            (TransitionAt(last.prev, i).validation = "true"
                /\ HasDestination(last.prev, i))
            => /\ NoEarlierMatch(last.prev, i)
                  => /\ last.res = "ok"
                     /\ currentState.name = TransitionAt(last.prev, i).toState.name
               /\ \E k \in 1..i :
                     /\ NoEarlierMatch(last.prev, k)
                     /\ ~GuardFalse(last.prev, k)
                     /\ StopsAt(last.prev, k)

\* A pass took the first transition of A, which has the default guard, on a
\* bag that holds no value for b, although a transition declared after it
\* has a guard that holds and another destination.
C10_Witness ==
    /\ Updated
    /\ last.res = "ok"
    /\ values["b"] = Undefined
    /\ Positions(last.prev) = {1, 2}
    /\ TransitionAt(last.prev, 1).validation = "true"
    /\ HasDestination(last.prev, 1)
    /\ TransitionAt(last.prev, 2).validation = "a1"
    /\ GuardHolds(last.prev, 2) /\ HasDestination(last.prev, 2)
    /\ TransitionAt(last.prev, 2).toState.name
          # TransitionAt(last.prev, 1).toState.name
    /\ currentState.name = TransitionAt(last.prev, 1).toState.name

\* C11, as stated: in every reachable state the current State, once set, is
\* the State the registry holds under the current State's name.
C11_CurrentInRegistry ==
    currentState # Null => states[currentState.name] = currentState

\* C12: once setCurrentState has succeeded the current state is never null
\* again: no call takes a machine that has a current State to a machine that
\* has none.
C12_NeverNullAgain ==
    [][(currentState \in Allocated) => (currentState' \in Allocated')]_vars

\* With a current State set, a property update ended with the error of a
\* guard, and the current State is still set.
C12_Witness ==
    /\ Updated
    /\ last.res = "guard threw"
    /\ currentState \in Allocated
    /\ currentState = last.prev

\* C13: with no current state set, a read of currentStateName, is(name),
\* setProperty and setProperties each end with an error and leave the machine
\* without a current state.
C13_NoCurrentStateFails ==
    (last.prev = Null
        /\ last.op \in {"currentStateName", "is", "setProperty", "setProperties"})
    => last.res = "TypeError" /\ currentState = Null

\* is(name) was called with a registered name on a machine that has no
\* current state, and ended with an error.
C13_Witness ==
    /\ last.op = "is"
    /\ last.prev = Null
    /\ Registered(last.name)
    /\ last.res = "TypeError"

\* The outcomes that are errors.
Failed == {"not found", "TypeError", "guard threw"}

\* C14, as stated: every call that ends with an error leaves the registry,
\* every transition list, every transition, the bag and the current state as
\* they were before the call.
C14_NoPartialSuccess ==
    [][(last'.res \in Failed) => UNCHANGED machine]_vars

\* C15: when a property update runs a pass in which a guard throws, every
\* guard declared before it having returned false, the call ends with the
\* error of the guard and the current state is the one before the call,
\* whatever the guards of the transitions declared after it return.
C15_GuardErrorPropagates ==
    Updated =>
        \A i \in Positions(last.prev) :
            (GuardThrows(TransitionAt(last.prev, i).validation, values)
                /\ NoEarlierMatch(last.prev, i))
            => last.res = "guard threw" /\ currentState = last.prev

\* A pass ended with the error of the first guard, while the second
\* transition has a guard that holds and a destination of another name.
C15_Witness ==
    /\ Updated
    /\ last.res = "guard threw"
    /\ Positions(last.prev) = {1, 2}
    /\ GuardThrows(TransitionAt(last.prev, 1).validation, values)
    /\ GuardHolds(last.prev, 2) /\ HasDestination(last.prev, 2)
    /\ TransitionAt(last.prev, 2).toState.name # last.prev.name
    /\ currentState = last.prev

\* C16: the bag changes only in setProperty and setProperties, and only at
\* the keys the call was given, which then hold the values given; a change
\* of the current state, by a pass or by setCurrentState, changes no entry.
C16_BagPersists ==
    [][/\ \A k \in Keys :
            values'[k] # values[k]
            => /\ last'.op \in {"setProperty", "setProperties"}
               /\ k \in DOMAIN last'.objects
       /\ last'.op \in {"setProperty", "setProperties"}
            => \A k \in DOMAIN last'.objects : values'[k] = last'.objects[k]
       /\ last'.op = "setCurrentState" => values' = values]_vars

\* setProperty("b", ...) moved the machine to a state of another name, where
\* a guard reading a holds on the value written for a by an earlier call.
C16_Witness ==
    /\ Updated
    /\ last.op = "setProperty"
    /\ DOMAIN last.objects = {"b"}
    /\ values["a"] = 1
    /\ last.res = "ok"
    /\ currentState.name # last.prev.name
    /\ \E j \in Positions(currentState) :
          /\ TransitionAt(currentState, j).validation = "a1"
          /\ GuardHolds(currentState, j)

\* The transition at position i of the State s has no destination bound.
Unbound(s, i) == TransitionAt(s, i).toState = Null

\* C17, as stated: a pass skips the transitions that have no destination
\* bound.  When a transition with a destination has a guard that holds, and
\* every transition declared before it either has a guard that returns false
\* or has no destination bound (and a guard that returns), the current state
\* after the call is named as its destination.
C17_UnboundNeverMatches ==
    Updated =>
        \A j \in Positions(last.prev) :
            (/\ GuardHolds(last.prev, j) /\ HasDestination(last.prev, j)
             /\ \A k \in 1..(j - 1) :
                    \/ GuardFalse(last.prev, k)
                    \/ Unbound(last.prev, k) /\ GuardHolds(last.prev, k))
            => currentState.name = TransitionAt(last.prev, j).toState.name

\* The State objects that addState calls constructed under the name n, and
\* the one the last of these calls constructed.
Constructed(n) == {s \in Allocated : s.name = n}
Newest(n) == [name |-> n, gen |-> Cardinality(Constructed(n))]

\* C18: addState(name) ends without error whether or not the name is
\* registered, and leaves under the name a State that the call constructed,
\* with an empty transition list; the registry holds for every registered
\* name the State the last addState call for it constructed, so that a later
\* from(name) attaches its transition to that State and a later
\* setCurrentState(name) makes that State current.
C18_AddStateOverwrites ==
    /\ \A n \in Names : Registered(n) => states[n] = Newest(n)
    /\ last.op = "addState"
        => /\ last.res = "ok"
           /\ states[last.name] \in Allocated
           /\ transitions[states[last.name]] = <<>>
    /\ (last.op = "from" /\ last.res = "ok")
        => /\ trans[Len(trans)].fromState = Newest(last.name)
           /\ transitions[Newest(last.name)][Len(transitions[Newest(last.name)])]
                 = Len(trans)
           /\ \A s \in Allocated \ {Newest(last.name)} :
                 \A i \in Positions(s) : transitions[s][i] # Len(trans)
    /\ (last.op = "setCurrentState" /\ last.res = "ok")
        => currentState = Newest(last.name)

\* from(name) attached a transition to the State of the second addState(name)
\* call, whose list holds nothing else, while the State of the first call
\* has a transition of its own.
C18_Witness ==
    /\ last.op = "from"
    /\ last.res = "ok"
    /\ states[last.name].gen = 2
    /\ transitions[[name |-> last.name, gen |-> 1]] # <<>>
    /\ transitions[states[last.name]] = <<Len(trans)>>

\* The number of transitions the registry holds for the name n.
Declared(n) == IF states[n] \in Allocated THEN Len(transitions[states[n]]) ELSE 0

IsPrefix(a, b) == Len(a) <= Len(b) /\ \A i \in 1..Len(a) : a[i] = b[i]

\* C19, as stated: the number of transitions the registry holds for a name
\* never decreases.
C19_CountNeverDecreases ==
    [][\A n \in Names : Declared(n)' >= Declared(n)]_vars

\* C19, amended: the transition list of every State object only grows: no
\* call removes or reorders the transitions declared from it; the number of
\* transitions the registry holds for a name decreases only in an addState
\* call for that name, which leaves it at zero.
C19_ListOnlyGrows ==
    [][/\ \A s \in Allocated :
            s \in Allocated' /\ IsPrefix(transitions[s], transitions'[s])
       /\ \A n \in Names :
            Declared(n)' < Declared(n)
            => last'.op = "addState" /\ last'.name = n /\ Declared(n)' = 0]_vars

\* addState registered again a name that had transitions: the State of the
\* first call keeps its list of two, the registry holds none for the name.
C19_Witness ==
    /\ last.op = "addState"
    /\ states[last.name].gen = 2
    /\ Len(transitions[[name |-> last.name, gen |-> 1]]) = 2
    /\ Declared(last.name) = 0

\* C20, as stated: when a transition fires, the new current State is the
\* State object that to(name) bound as its destination.
C20_BoundAtBindTime ==
    Updated =>
        \A i \in Positions(last.prev) :
            Fires(last.prev, i) => currentState = TransitionAt(last.prev, i).toState

\* C20, amended: to(name) binds as destination the State the registry holds
\* under name when it is called; when the transition later fires, the new
\* current State is the State the registry holds at that moment under the
\* name of the bound State: the bound State itself when no addState call
\* registered the name again in between, and otherwise the State of the
\* latest addState call for the name, with that State's transition list.
C20_ResolvedAgainWhenFired ==
    /\ (last.op = "to" /\ last.res = "ok")
        => \E t \in 1..Len(trans) : trans[t].toState = states[last.name]
    /\ Updated =>
        \A i \in Positions(last.prev) :
            LET bound == TransitionAt(last.prev, i).toState IN
            Fires(last.prev, i)
            => /\ last.res = "ok"
               /\ currentState = Newest(bound.name)
               /\ bound = Newest(bound.name) => currentState = bound

\* A transition fired whose destination was bound to the State of the first
\* addState call for a name that was registered again afterwards: the
\* current State is the State of the second call.
C20_Witness ==
    /\ Updated
    /\ last.res = "ok"
    /\ \E i \in Positions(last.prev) :
          /\ Fires(last.prev, i)
          /\ TransitionAt(last.prev, i).toState.gen = 1
          /\ currentState.name = TransitionAt(last.prev, i).toState.name
          /\ currentState.gen = 2

\* The transition t has a destination bound and a guard given by when.
Completed(t) == trans[t].toState # Null /\ trans[t].validation # "true"

\* C27, as stated: once a transition has its destination and its guard set,
\* no later call changes either.
C27_NeverMutated ==
    [][\A t \in 1..Len(trans) : (Completed(t) => (trans'[t] = trans[t]))]_vars

\* C27, amended: the destination and the guard of a transition are changed
\* by no call other than to(...) and when(...): a call of to(name) changes
\* the destination of one transition, to the State the registry holds under
\* name, and nothing else; a call of when(g) changes the guard of one
\* transition, to g, and nothing else; this also when the transition already
\* had both.  The origin of a transition never changes.
C27_OnlyBuilderCallsMutate ==
    [][\A t \in 1..Len(trans) :
          /\ trans'[t].fromState = trans[t].fromState
          /\ (trans'[t] # trans[t])
              => /\ last'.op \in {"to", "when"}
                 /\ last'.res = "ok"
                 /\ \A u \in 1..Len(trans) : ((u # t) => (trans'[u] = trans[u]))
                 /\ (last'.op = "to")
                     => /\ trans'[t].toState = states[last'.name]
                        /\ trans'[t].validation = trans[t].validation
                 /\ (last'.op = "when")
                     => (trans'[t].toState = trans[t].toState)]_vars

\* when(...) was called with two transitions declared, both with a
\* destination bound; one has the guard a call of when gave it, the other
\* still has the default guard.
C27_Witness ==
    /\ last.op = "when"
    /\ Len(trans) = 2
    /\ \A t \in 1..Len(trans) : trans[t].toState \in Allocated
    /\ trans[1].validation = "true"
    /\ trans[2].validation = "a1b2"

\* C28: a call of setProperty or setProperties that leaves the bag as it was
\* (the value given is the value stored, or the map is empty) still runs one
\* pass: made with A current, when a transition of A with a destination has
\* a guard that holds and every transition declared before it has a guard
\* that returns false, the call ends without error with the State the
\* registry holds under the destination's name current.
C28_PassOnEveryCall ==
    [][(last'.op \in {"setProperty", "setProperties"}
            /\ values' = values /\ currentState \in Allocated)
        => \A i \in Positions(currentState) :
              Fires(currentState, i)
              => /\ last'.res = "ok"
                 /\ (currentState'
                       = states[TransitionAt(currentState, i).toState.name])]_vars

\* setProperties({}) moved the machine to a state of another name, which has
\* itself a transition to a state of another name that the same bag takes:
\* the next such call moves the machine again.
C28_Witness ==
    /\ last.op = "setProperties"
    /\ last.objects = NoObjects
    /\ last.prev \in Allocated
    /\ last.res = "ok"
    /\ currentState.name # last.prev.name
    /\ \E j \in Positions(currentState) :
          /\ Fires(currentState, j)
          /\ TransitionAt(currentState, j).toState.name # currentState.name

\* C29, as stated: a property update made with a current state set never
\* ends with the error of getState, `State ... not found`.
C29_PassFindsDestination ==
    (last.op \in {"setProperty", "setProperties"} /\ last.prev # Null)
    => last.res # "not found"

\* The transitions created by from calls that named the State s, in the
\* order of the calls.  (Transition t is the one the t-th from call made.)
RECURSIVE CreatedFrom(_, _)
CreatedFrom(s, t) ==
    IF t > Len(trans) THEN <<>>
    ELSE IF trans[t].fromState = s
         THEN <<t>> \o CreatedFrom(s, t + 1)
         ELSE CreatedFrom(s, t + 1)

\* C26: the list of a State holds its transitions in the order of their
\* from calls, whatever the order in which to and when were called on them.
\* When a property update is made with A current and two transitions of A
\* with a destination have a guard that holds, the one whose from call came
\* first, every transition made by an earlier from(A) having a guard that
\* returns false, gives the current state its destination's name.
C26_OrderFixedByFrom ==
    /\ \A s \in Allocated : transitions[s] = CreatedFrom(s, 1)
    /\ Updated =>
          \A i \in Positions(last.prev), j \in Positions(last.prev) :
              (/\ transitions[last.prev][i] < transitions[last.prev][j]
               /\ GuardHolds(last.prev, i) /\ HasDestination(last.prev, i)
               /\ GuardHolds(last.prev, j) /\ HasDestination(last.prev, j)
               /\ \A k \in Positions(last.prev) :
                     (transitions[last.prev][k] < transitions[last.prev][i])
                     => GuardFalse(last.prev, k))
              => /\ last.res = "ok"
                 /\ currentState.name = TransitionAt(last.prev, i).toState.name

\* t1 = from(A) came before t2 = from(A); to and when were called on t2
\* first and on t1 afterwards, with the same guard and another destination;
\* the guard holds and the pass took t1.
C26_Witness ==
    /\ Updated
    /\ last.res = "ok"
    /\ transitions[last.prev] = <<1, 2>>
    /\ builderLog = << <<"to", 2>>, <<"when", 2>>, <<"to", 1>>, <<"when", 1>> >>
    /\ TransitionAt(last.prev, 1).validation = TransitionAt(last.prev, 2).validation
    /\ GuardHolds(last.prev, 1) /\ HasDestination(last.prev, 1)
    /\ GuardHolds(last.prev, 2) /\ HasDestination(last.prev, 2)
    /\ TransitionAt(last.prev, 1).toState.name
          # TransitionAt(last.prev, 2).toState.name
    /\ currentState.name = TransitionAt(last.prev, 1).toState.name

\* C22, as stated: when a and b do not intersect, intersection(a, b, output)
\* returns a Rectangle whose x, y, width and height are 0, whatever output
\* held before the call.
C22_NoIntersectionIsEmpty ==
    (rlast.op = "intersection" /\ ~intersects(rect, rlast.b))
    => rlast.ret = EmptyRectangle

\* C23, as stated: empty reads true iff width <= 0 or height <= 0;
\* assigning true sets the four fields to 0, assigning false changes nothing.
C23_EmptyBySign ==
    /\ [](rlast.op = "empty"
            => (rlast.bool <=> (rect.width <= 0 \/ rect.height <= 0)))
    /\ []((rlast.op = "setEmpty" /\ rlast.flag) => rect = EmptyRectangle)
    /\ [][(rlast'.op = "setEmpty" /\ ~rlast'.flag) => (rect' = rect)]_vars

\* C24: assigning bottom leaves x, y and width as they were; assigning right
\* leaves x, y and height; assigning left leaves y and height; assigning top
\* leaves x and width.
C24_EdgeSetterFrames ==
    [][/\ (rlast'.op = "setBottom")
            => (rect'.x = rect.x /\ rect'.y = rect.y /\ rect'.width = rect.width)
       /\ (rlast'.op = "setRight")
            => (rect'.x = rect.x /\ rect'.y = rect.y /\ rect'.height = rect.height)
       /\ (rlast'.op = "setLeft")
            => (rect'.y = rect.y /\ rect'.height = rect.height)
       /\ (rlast'.op = "setTop")
            => (rect'.x = rect.x /\ rect'.width = rect.width)]_vars

\* bottom was assigned a value above the top of the Rectangle: the height is
\* 0 and the top is not at the value assigned.
C24_Witness ==
    /\ rlast.op = "setBottom"
    /\ rlast.value < rect.y
    /\ rect.height = 0
    /\ rect.width # 0

\* C25: inflate(dx, dy) leaves centerX and centerY as they were, and adds
\* 2 * dx to the width and 2 * dy to the height.
C25_InflateKeepsCenter ==
    [][(rlast'.op = "inflate")
        => /\ centerX(rect') = centerX(rect)
           /\ centerY(rect') = centerY(rect)
           /\ rect'.width = rect.width + 2 * rlast'.dx
           /\ rect'.height = rect.height + 2 * rlast'.dy]_vars

\* A Rectangle of width 1 and height -1 was inflated by dx = 1 and dy = -1.
C25_Witness ==
    /\ rlast.op = "inflate"
    /\ rlast.dx = 1 /\ rlast.dy = 0 - 1
    /\ rect.width = 3
    /\ rect.height = 0 - 3

\* The Player's machine is being set up: initStatemachine has not returned.
InSetup == player.pc \in {"addState", "from", "to", "when", "setCurrentState"}
ConfigRegistered == \A n \in Range(player.config.states) : Registered(n)
AllCompleted == \A t \in 1..Len(trans) : Completed(t)

\* C30: Player.initStatemachine registers every state of the configuration
\* before it declares a transition, completes each from/to/when chain before
\* it starts the next, and calls setCurrentState(Idle) last with no property
\* update in between: while it runs no property has a value and no state is
\* current (no evaluation pass has run), every call of addState finds no
\* transition declared, every call of from finds all states registered and
\* all earlier transitions completed, every evaluation pass finds only
\* completed transitions, and when the constructor returns the current state
\* is the State registered as Idle.
C30_SetupOrder ==
    /\ [](InSetup => /\ currentState = Null
                     /\ \A k \in PlayerKeys : values[k] = Undefined
                     /\ last.op \notin {"setProperty", "setProperties"})
    /\ [][/\ (last'.op = "addState") => (trans = <<>>)
          /\ (last'.op = "from") => (ConfigRegistered /\ AllCompleted)
          /\ (last'.op = "to") => (\A t \in 1..(Len(trans) - 1) : Completed(t))
          /\ (last'.op = "setCurrentState")
                => (ConfigRegistered /\ AllCompleted /\ InSetup)
          /\ (last'.op \in {"setProperty", "setProperties"})
                => (AllCompleted /\ ~InSetup)
          /\ (InSetup /\ player'.pc = "done")
                => (/\ last'.op = "setCurrentState"
                    /\ currentState' \in Allocated'
                    /\ currentState' = states'[Idle]
                    /\ (currentState'.name = Idle))]_vars

\* A configuration whose first key is not Idle, with two transitions, has
\* been set up and the constructor has just returned.
C30_Witness ==
    /\ player.pc = "done"
    /\ last.op = "setCurrentState"
    /\ player.config.states = <<"Running", "Idle">>
    /\ Len(trans) = 2
    /\ AllCompleted
    /\ currentState.name = Idle

\* The machine of the example: Idle goes to Running when velocityX is not 0,
\* Running goes to Idle when velocityX is 0, and nothing else is declared.
IdleRunningMachine ==
    /\ states["Idle"] \in Allocated
    /\ states["Running"] \in Allocated
    /\ Len(trans) = 2
    /\ Len(transitions[states["Idle"]]) = 1
    /\ Len(transitions[states["Running"]]) = 1
    /\ TransitionAt(states["Idle"], 1).toState = states["Running"]
    /\ TransitionAt(states["Idle"], 1).validation = "moving"
    /\ TransitionAt(states["Running"], 1).toState = states["Idle"]
    /\ TransitionAt(states["Running"], 1).validation = "still"

\* C21: in the machine with from(Idle).to(Running).when(velocityX != 0) and
\* from(Running).to(Idle).when(velocityX == 0), started in Idle, after every
\* call setProperty('velocityX', v) the call has ended normally and the
\* current state is Running if and only if v is not 0, and Idle if and only
\* if v is 0.
C21_RunningIffMoving ==
    (/\ player.pc = "done"
     /\ IdleRunningMachine
     /\ last.op = "setProperty"
     /\ "velocityX" \in DOMAIN last.objects)
    => /\ last.res = "ok"
       /\ currentState.name = "Running" <=> last.objects["velocityX"] # 0
       /\ currentState.name = "Idle" <=> last.objects["velocityX"] = 0

\* The machine was Running and setProperty('velocityX', 0) has brought it
\* back to Idle.
C21_Witness ==
    /\ player.pc = "done"
    /\ IdleRunningMachine
    /\ last.op = "setProperty"
    /\ "velocityX" \in DOMAIN last.objects
    /\ last.objects["velocityX"] = 0
    /\ last.prev.name = "Running"
    /\ currentState.name = "Idle"

\* C35: assigning top a value below the bottom edge moves the top edge to
\* that value and keeps the bottom edge: after the assignment the top getter
\* reads the value and the bottom getter reads what it read before.
C35_TopMovesTopEdge ==
    [][(rlast'.op = "setTop" /\ rlast'.value < bottom(rect))
        => (rect'.y = rlast'.value /\ bottom(rect') = bottom(rect))]_vars

\* C31: the collision body of a Player is halved at most once.  After any
\* sequence of setCrouching and update calls the body height is the full
\* height H or H/2 (it was halved 0 times or once), isHalfWidth is true
\* exactly when it is H/2, and after setCrouching(false) it is H.
C31_HalvedAtMostOnce ==
    /\ body.halvings \in {0, 1}
    /\ body.isHalfWidth <=> (body.halvings = 1)
    /\ (plast.op = "setCrouching" /\ plast.crouching = JsFalse)
          => (body.halvings = 0)

\* setCrouching(true) was called on a Player whose body was already halved
\* and which is still in a crouch state: the height is H/2.
C31_Witness ==
    /\ plast.op = "setCrouching"
    /\ plast.crouching = JsTrue
    /\ plast.wasHalf
    /\ currentState.name = "Crouched"
    /\ body.halvings = 1

C33_ActivatedAtMostOnce ==
    /\ \A p \in Powerups : inventory.activated[p] <= inventory.stored[p]
    /\ inventory.item \in Powerups \cup {EmptyPowerup}
    /\ (inventory.op = "useItem") => (inventory.item = EmptyPowerup)

\* One setItem call stored a powerup and useItem has activated it: the item
\* held is an EmptyPowerup again.
C33_Witness ==
    /\ inventory.op = "useItem"
    /\ inventory.item = EmptyPowerup
    /\ \E p \in Powerups :
          /\ inventory.stored[p] = 1
          /\ inventory.activated[p] = 1
          /\ \A q \in Powerups \ {p} : inventory.stored[q] = 0

\* C34: on the Title screen no scene is started in a click: a click adds the
\* one-shot listener of its button and starts the fade, a scene is started
\* only when the fade completes, the scenes started are those of the buttons
\* clicked, and one fade completion starts at most one scene, also when
\* several buttons were clicked before it.
C34_OneSceneStartPerFade ==
    [][/\ (title'.op = "click")
            => (/\ title'.started = title.started
                /\ title'.elapsed >= 1
                /\ \E i \in DOMAIN title'.listeners :
                      title'.listeners[i] \in {SceneOf(b) : b \in Buttons})
       /\ (title'.started # title.started) => (title'.op = "fadeComplete")
       /\ (title'.op = "fadeComplete")
            => (/\ Len(title'.started) - Len(title.started) <= 1
                /\ Range(title'.started) \subseteq Range(title.listeners))]_vars

====
